---- MODULE Spec2Model ----
(***************************************************************************)
(* Surface lifecycle and frame loop of Frontier Outpost (src/main.rs).     *)
(*                                                                         *)
(* The program is one thread: main() runs its startup statements in order  *)
(* and then hands a closure to the event loop, which calls it once per     *)
(* event.  pc is the position of that thread.  Each statement of the       *)
(* RedrawRequested arm that calls into the GPU or reads the clock is one   *)
(* step, so that time can pass between them; while a handler is running   *)
(* (pc # "idle") no other event is dispatched.                             *)
(*                                                                         *)
(* Time is counted in microseconds.  The clock advances where the thread   *)
(* can block or wait: waiting for the next event and inside                *)
(* get_current_texture, while printing the report, and while recording,    *)
(* submitting and presenting.                                              *)
(***************************************************************************)
EXTENDS Integers, Sequences, FiniteSets

\* ---------------------------------------------------------------- bounds
\* Largest width or height a window reports.
MaxDim == 2
\* Number of get_current_texture calls explored.
MaxFrames == 2

\* ---------------------------------------------------------------- constants
\* Duration::from_secs(1), in seconds.
ReportIntervalSecs == 1
MicrosPerSec == 1000000
\* Duration::as_millis: microseconds per reported millisecond.
MicrosPerMilli == 1000

ReportInterval == ReportIntervalSecs * MicrosPerSec

\* Time blocked in get_current_texture (the loop polls, so it does not wait
\* between events): one display refresh, or a second of back-pressure.
AcquireWaits == {16000, ReportInterval}
\* Time spent in println! between the interval check and Instant::now().
PrintDelays == {0, 100}
\* Time from frame_start_time to the end of present.
RenderDurations == {500, 1000}

\* const VERTICES: &[Vertex], positions in units of 0.5
VERTICES == <<<<-1, -1>>, <<1, -1>>, <<1, 1>>, <<-1, 1>>>>

\* const INDICES: &[u16]
INDICES == <<0, 1, 2, 0, 2, 3>>

Dims == 0..MaxDim
Sizes == [width : Dims, height : Dims]
NoSize == [width |-> -1, height |-> -1]
Formats == {"Bgra8UnormSrgb", "Rgba8UnormSrgb"}
NotConfigured == [configured |-> FALSE]
NoFrame == 0

VARIABLES
    pc,               \* position of the main thread
    control_flow,     \* *control_flow: "Poll" or "Exit"
    redraw_requested, \* window.request_redraw() pending
    window_size,      \* size the windowing system last reported
    config,           \* the SurfaceConfiguration value held by main
    surface_config,   \* configuration last passed to surface.configure
    pipeline_format,  \* ColorTargetState.format of render_pipeline
    now,              \* the monotonic clock, microseconds
    frame_time,       \* accumulated frame duration
    last_time,        \* start of the current reporting interval
    frames,           \* frame counter
    frame_start_time, \* Instant taken at line 174
    output,           \* the acquired SurfaceTexture, NoFrame when none
    encoder,          \* draw calls recorded in the current encoder
    gpu_log,          \* history: acquire/submit/present calls in program order,
                      \* each tagged with the ordinal of the redraw that made it
    reports,          \* history: samples printed by println!
    last_resize,      \* history: size carried by the last Resized event
    repeated,         \* history: the last Resized event repeated its predecessor
    vertex_buffer,    \* contents of vertex_buffer
    index_buffer,     \* contents of index_buffer
    submitted,        \* history: the command buffers given to queue.submit
    durations,        \* history: durations added to frame_time since its reset
    acquire_began,    \* history: clock when get_current_texture was last called
    startup_error     \* history: "none", "no_adapter" or "device_refused"

vars == <<pc, control_flow, redraw_requested, window_size, config, surface_config,
          pipeline_format, now, frame_time, last_time, frames, frame_start_time,
          output, encoder, gpu_log, reports, last_resize, repeated,
          vertex_buffer, index_buffer, submitted, durations, acquire_began,
          startup_error>>

surfaceVars == <<window_size, config, surface_config, last_resize, repeated>>
timerVars == <<frame_time, last_time, frames, durations>>
gpuVars == <<output, encoder, gpu_log, submitted>>
geometryVars == <<vertex_buffer, index_buffer>>

\* ---------------------------------------------------------------- helpers
Last(s) == s[Len(s)]

\* Number of get_current_texture calls made so far.
AcquireCalls == Cardinality({i \in 1..Len(gpu_log) :
                               gpu_log[i].op \in {"acquire", "acquire_failed"}})

\* Variant of configure that forgets the height.
configure_widthOnly(cfg, new_size) ==
    [cfg EXCEPT !.width = new_size.width]

\* The closure `configure`: copy the new size into config.
configure(cfg, new_size) ==
    [cfg EXCEPT !.width = new_size.width, !.height = new_size.height]

\* surface.configure(device, &config): the surface takes the whole value.
surface_configure(cfg) ==
    [configured |-> TRUE, usage |-> cfg.usage, format |-> cfg.format,
     width |-> cfg.width, height |-> cfg.height,
     present_mode |-> cfg.present_mode, alpha_mode |-> cfg.alpha_mode]

\* Duration::as_millis: whole milliseconds, the remainder dropped.
as_millis(d) == d \div MicrosPerMilli

\* Variant of ReportDue that compares against one millisecond.
ReportDue_millis(elapsed) == elapsed >= MicrosPerMilli

\* last_time.elapsed() >= Duration::from_secs(1)
ReportDue(elapsed) == elapsed >= ReportInterval

\* ---------------------------------------------------------------- startup
Init ==
    /\ pc = "request_adapter"
    /\ control_flow = "Poll"
    /\ redraw_requested = FALSE
    /\ window_size \in Sizes
    /\ config = [configured |-> FALSE]
    /\ surface_config = NotConfigured
    /\ pipeline_format = "none"
    /\ now = 0
    /\ frame_time = 0
    /\ last_time = 0
    /\ frames = 0
    /\ frame_start_time = 0
    /\ output = NoFrame
    /\ encoder = <<>>
    /\ gpu_log = <<>>
    /\ reports = <<>>
    /\ last_resize = NoSize
    /\ repeated = FALSE
    /\ vertex_buffer = <<>>
    /\ index_buffer = <<>>
    /\ submitted = <<>>
    /\ durations = 0
    /\ acquire_began = 0
    /\ startup_error = "none"

\* request_adapter(..).await.unwrap(): None panics.
RequestAdapter ==
    /\ pc = "request_adapter"
    /\ \E found \in BOOLEAN :
         /\ pc' = IF found THEN "request_device" ELSE "panicked"
         /\ startup_error' = IF found THEN "none" ELSE "no_adapter"
    /\ UNCHANGED <<geometryVars, acquire_began,
                   control_flow, redraw_requested, surfaceVars, pipeline_format,
                   now, timerVars, frame_start_time, gpuVars, reports>>

\* Variant of RequestDevice that goes on after a refusal.
RequestDevice_continues ==
    /\ pc = "request_device"
    /\ \E granted \in BOOLEAN :
         /\ pc' = "create_buffers"
         /\ startup_error' = IF granted THEN "none" ELSE "device_refused"
    /\ UNCHANGED <<geometryVars, acquire_began,
                   control_flow, redraw_requested, surfaceVars, pipeline_format,
                   now, timerVars, frame_start_time, gpuVars, reports>>

\* request_device(..).await?: Err returns from main.
RequestDevice ==
    /\ pc = "request_device"
    /\ \E granted \in BOOLEAN :
         /\ pc' = IF granted THEN "create_buffers" ELSE "startup_failed"
         /\ startup_error' = IF granted THEN "none" ELSE "device_refused"
    /\ UNCHANGED <<geometryVars, acquire_began,
                   control_flow, redraw_requested, surfaceVars, pipeline_format,
                   now, timerVars, frame_start_time, gpuVars, reports>>

\* create_buffer_init for VERTICES and for INDICES
CreateBuffers ==
    /\ pc = "create_buffers"
    /\ vertex_buffer' = VERTICES
    /\ index_buffer' = INDICES
    /\ pc' = "configure"
    /\ UNCHANGED <<startup_error, acquire_began, control_flow, redraw_requested,
                   surfaceVars, pipeline_format, now, timerVars, frame_start_time,
                   gpuVars, reports>>

\* let mut config = SurfaceConfiguration {..}; configure(.., window.inner_size(), ..)
ConfigureSurface ==
    /\ pc = "configure"
    /\ \E first_format \in Formats :
         LET initial == [usage |-> "RENDER_ATTACHMENT", format |-> first_format,
                         width |-> 0, height |-> 0,
                         present_mode |-> "AutoVsync", alpha_mode |-> "Auto"]
         IN /\ config' = configure(initial, window_size)
            /\ surface_config' = surface_configure(config')
    /\ pc' = "build_pipeline"
    /\ UNCHANGED <<geometryVars, startup_error, acquire_began,
                   control_flow, redraw_requested, window_size, last_resize, repeated,
                   pipeline_format, now, timerVars, frame_start_time, gpuVars, reports>>

\* Variant of BuildPipeline with a hard-coded target format.
BuildPipeline_fixedFormat ==
    /\ pc = "build_pipeline"
    /\ pipeline_format' = "Bgra8UnormSrgb"
    /\ pc' = "init_timer"
    /\ UNCHANGED <<geometryVars, startup_error, acquire_began,
                   control_flow, redraw_requested, surfaceVars,
                   now, timerVars, frame_start_time, gpuVars, reports>>

\* create_render_pipeline with targets[0].format = config.format
BuildPipeline ==
    /\ pc = "build_pipeline"
    /\ pipeline_format' = config.format
    /\ pc' = "init_timer"
    /\ UNCHANGED <<geometryVars, startup_error, acquire_began,
                   control_flow, redraw_requested, surfaceVars,
                   now, timerVars, frame_start_time, gpuVars, reports>>

\* frame_time = ZERO; last_time = Instant::now(); frames = 0; event_loop.run
InitTimer ==
    /\ pc = "init_timer"
    /\ frame_time' = 0
    /\ last_time' = now
    /\ frames' = 0
    /\ durations' = 0
    /\ pc' = "idle"
    /\ UNCHANGED <<geometryVars, startup_error, acquire_began,
                   control_flow, redraw_requested, surfaceVars, pipeline_format,
                   now, frame_start_time, gpuVars, reports>>

\* ---------------------------------------------------------------- events
\* Event::MainEventsCleared => window.request_redraw()
MainEventsCleared ==
    /\ pc = "idle"
    /\ redraw_requested' = TRUE
    /\ UNCHANGED <<geometryVars, startup_error, acquire_began,
                   pc, control_flow, surfaceVars, pipeline_format,
                   now, timerVars, frame_start_time, gpuVars, reports>>

\* Variant of Resized that builds a fresh configuration for the new size.
Resized_freshConfig ==
    /\ pc = "idle"
    /\ \E new_size \in Sizes :
         /\ window_size' = new_size
         /\ config' = [usage |-> "RENDER_ATTACHMENT", format |-> "Bgra8UnormSrgb",
                       width |-> new_size.width, height |-> new_size.height,
                       present_mode |-> "AutoVsync", alpha_mode |-> "Auto"]
         /\ surface_config' = surface_configure(config')
         /\ repeated' = (last_resize = new_size)
         /\ last_resize' = new_size
    /\ UNCHANGED <<geometryVars, startup_error, acquire_began,
                   pc, control_flow, redraw_requested, pipeline_format,
                   now, timerVars, frame_start_time, gpuVars, reports>>

\* Variant of Resized that stores the size but leaves the surface as it was.
Resized_withoutReconfigure ==
    /\ pc = "idle"
    /\ \E new_size \in Sizes :
         /\ window_size' = new_size
         /\ config' = configure(config, new_size)
         /\ repeated' = (last_resize = new_size)
         /\ last_resize' = new_size
    /\ UNCHANGED <<geometryVars, startup_error, acquire_began,
                   pc, control_flow, redraw_requested, surface_config, pipeline_format,
                   now, timerVars, frame_start_time, gpuVars, reports>>

\* WindowEvent::Resized(new_size) => configure(&mut config, *new_size, ..)
Resized ==
    /\ pc = "idle"
    /\ \E new_size \in Sizes :
         /\ window_size' = new_size
         /\ config' = configure(config, new_size)
         /\ surface_config' = surface_configure(config')
         /\ repeated' = (last_resize = new_size)
         /\ last_resize' = new_size
    /\ UNCHANGED <<geometryVars, startup_error, acquire_began,
                   pc, control_flow, redraw_requested, pipeline_format,
                   now, timerVars, frame_start_time, gpuVars, reports>>

\* WindowEvent::CloseRequested => *control_flow = ControlFlow::Exit
CloseRequested ==
    /\ pc = "idle"
    /\ control_flow' = "Exit"
    /\ UNCHANGED <<geometryVars, startup_error, acquire_began,
                   pc, redraw_requested, surfaceVars, pipeline_format,
                   now, timerVars, frame_start_time, gpuVars, reports>>

\* The event loop, having seen Exit, stops calling the closure.
LoopDestroyed ==
    /\ pc = "idle"
    /\ control_flow = "Exit"
    /\ pc' = "exited"
    /\ UNCHANGED <<geometryVars, startup_error, acquire_began,
                   control_flow, redraw_requested, surfaceVars, pipeline_format,
                   now, timerVars, frame_start_time, gpuVars, reports>>

\* ---------------------------------------------------------------- redraw
\* Variant of RedrawRequested that counts the frame before acquiring it.
RedrawRequested_countsBeforeAcquire ==
    /\ pc = "idle"
    /\ AcquireCalls < MaxFrames
    /\ redraw_requested' = FALSE
    /\ acquire_began' = now
    /\ frames' = frames + 1
    /\ \E wait \in AcquireWaits, acquired \in BOOLEAN :
         /\ now' = now + wait
         /\ IF acquired
              THEN /\ output' = AcquireCalls + 1
                   /\ gpu_log' = Append(gpu_log, [op |-> "acquire", frame |-> AcquireCalls + 1])
                   /\ pc' = "account"
              ELSE /\ output' = NoFrame
                   /\ gpu_log' = Append(gpu_log, [op |-> "acquire_failed", frame |-> AcquireCalls + 1])
                   /\ pc' = "panicked"
    /\ UNCHANGED <<geometryVars, startup_error,
                   control_flow, surfaceVars, pipeline_format,
                   frame_time, last_time, durations, frame_start_time, encoder,
                   submitted, reports>>

\* Event::RedrawRequested: let output = surface.get_current_texture().unwrap();
\* The arm has no guard on the size or on control_flow; Err panics.
RedrawRequested ==
    /\ pc = "idle"
    /\ AcquireCalls < MaxFrames
    /\ redraw_requested' = FALSE
    /\ acquire_began' = now
    /\ \E wait \in AcquireWaits, acquired \in BOOLEAN :
         /\ now' = now + wait
         /\ IF acquired
              THEN /\ output' = AcquireCalls + 1
                   /\ gpu_log' = Append(gpu_log, [op |-> "acquire", frame |-> AcquireCalls + 1])
                   /\ pc' = "account"
              ELSE /\ output' = NoFrame
                   /\ gpu_log' = Append(gpu_log, [op |-> "acquire_failed", frame |-> AcquireCalls + 1])
                   /\ pc' = "panicked"
    /\ UNCHANGED <<geometryVars, startup_error,
                   control_flow, surfaceVars, pipeline_format,
                   timerVars, frame_start_time, encoder, submitted, reports>>

\* Variant of Account whose report leaves frame_time as it was.
Account_keepsFrameTime ==
    /\ pc = "account"
    /\ LET counted == frames + 1
           elapsed == now - last_time
       IN IF ReportDue(elapsed)
            THEN \E delay \in PrintDelays :
                   /\ reports' = Append(reports,
                                   [frames |-> counted,
                                    durations |-> durations,
                                    avg_millis |-> as_millis(frame_time),
                                    avg_over |-> counted,
                                    accumulated |-> frame_time,
                                    start |-> last_time,
                                    at |-> now,
                                    reset_at |-> now + delay])
                   /\ frame_time' = frame_time
                   /\ now' = now + delay
                   /\ last_time' = now'
                   /\ frames' = 0
                   /\ durations' = 0
            ELSE /\ frames' = counted
                 /\ UNCHANGED <<reports, frame_time, last_time, now, durations>>
    /\ frame_start_time' = now'
    /\ pc' = "record"
    /\ UNCHANGED <<geometryVars, startup_error, acquire_began,
                   control_flow, redraw_requested, surfaceVars, pipeline_format, gpuVars>>

\* Variant of Account that counts the frame after the report block.
Account_countsAfterReport ==
    /\ pc = "account"
    /\ LET counted == frames
           elapsed == now - last_time
       IN IF ReportDue(elapsed)
            THEN \E delay \in PrintDelays :
                   /\ reports' = Append(reports,
                                   [frames |-> counted,
                                    durations |-> durations,
                                    avg_millis |-> as_millis(frame_time),
                                    avg_over |-> counted,
                                    accumulated |-> frame_time,
                                    start |-> last_time,
                                    at |-> now,
                                    reset_at |-> now + delay])
                   /\ frame_time' = 0
                   /\ now' = now + delay
                   /\ last_time' = now'
                   /\ frames' = 1
                   /\ durations' = 0
            ELSE /\ frames' = counted + 1
                 /\ UNCHANGED <<reports, frame_time, last_time, now, durations>>
    /\ frame_start_time' = now'
    /\ pc' = "record"
    /\ UNCHANGED <<geometryVars, startup_error, acquire_began,
                   control_flow, redraw_requested, surfaceVars, pipeline_format, gpuVars>>

\* frames += 1; if last_time.elapsed() >= 1s { println!; reset }; frame_start_time = now
Account ==
    /\ pc = "account"
    /\ LET counted == frames + 1
           elapsed == now - last_time
       IN IF ReportDue(elapsed)
            THEN \E delay \in PrintDelays :
                   /\ reports' = Append(reports,
                                   [frames |-> counted,
                                    durations |-> durations,
                                    avg_millis |-> as_millis(frame_time),
                                    avg_over |-> counted,
                                    accumulated |-> frame_time,
                                    start |-> last_time,
                                    at |-> now,
                                    reset_at |-> now + delay])
                   /\ frame_time' = 0
                   /\ now' = now + delay
                   /\ last_time' = now'
                   /\ frames' = 0
                   /\ durations' = 0
            ELSE /\ frames' = counted
                 /\ UNCHANGED <<reports, frame_time, last_time, now, durations>>
    /\ frame_start_time' = now'
    /\ pc' = "record"
    /\ UNCHANGED <<geometryVars, startup_error, acquire_began,
                   control_flow, redraw_requested, surfaceVars, pipeline_format, gpuVars>>

\* Variant of RecordPass that draws VERTICES.len() indices.
RecordPass_vertexCount ==
    /\ pc = "record"
    /\ encoder' = <<[first_index |-> 0, end_index |-> Len(VERTICES), base_vertex |-> 0,
                     first_instance |-> 0, end_instance |-> 1]>>
    /\ pc' = "submit"
    /\ UNCHANGED <<geometryVars, startup_error, acquire_began,
                   control_flow, redraw_requested, surfaceVars, pipeline_format,
                   now, timerVars, frame_start_time, output, gpu_log, submitted,
                   reports>>

\* create_view, create_command_encoder, begin_render_pass .. draw_indexed
RecordPass ==
    /\ pc = "record"
    /\ encoder' = <<[first_index |-> 0, end_index |-> Len(INDICES), base_vertex |-> 0,
                     first_instance |-> 0, end_instance |-> 1]>>
    /\ pc' = "submit"
    /\ UNCHANGED <<geometryVars, startup_error, acquire_began,
                   control_flow, redraw_requested, surfaceVars, pipeline_format,
                   now, timerVars, frame_start_time, output, gpu_log, submitted,
                   reports>>

\* Variant of Submit that finishes the encoder and drops the command buffer.
Submit_skipped ==
    /\ pc = "submit"
    /\ encoder' = <<>>
    /\ pc' = "present"
    /\ UNCHANGED <<geometryVars, startup_error, acquire_began,
                   control_flow, redraw_requested, surfaceVars, pipeline_format,
                   now, timerVars, frame_start_time, output, gpu_log, submitted,
                   reports>>

\* queue.submit(iter::once(encoder.finish()))
Submit ==
    /\ pc = "submit"
    /\ gpu_log' = Append(gpu_log, [op |-> "submit", frame |-> output])
    /\ submitted' = Append(submitted, encoder)
    /\ encoder' = <<>>
    /\ pc' = "present"
    /\ UNCHANGED <<geometryVars, startup_error, acquire_began,
                   control_flow, redraw_requested, surfaceVars, pipeline_format,
                   now, timerVars, frame_start_time, output, reports>>

\* Variant of Present that drops the SurfaceTexture without presenting it.
Present_dropped ==
    /\ pc = "present"
    /\ \E took \in RenderDurations : now' = now + took
    /\ output' = NoFrame
    /\ pc' = "add_time"
    /\ UNCHANGED <<geometryVars, startup_error, acquire_began,
                   control_flow, redraw_requested, surfaceVars, pipeline_format,
                   timerVars, frame_start_time, encoder, gpu_log, submitted, reports>>

\* output.present(): consumes the SurfaceTexture
Present ==
    /\ pc = "present"
    /\ \E took \in RenderDurations : now' = now + took
    /\ gpu_log' = Append(gpu_log, [op |-> "present", frame |-> output])
    /\ output' = NoFrame
    /\ pc' = "add_time"
    /\ UNCHANGED <<geometryVars, startup_error, acquire_began,
                   control_flow, redraw_requested, surfaceVars, pipeline_format,
                   timerVars, frame_start_time, encoder, submitted, reports>>

\* frame_time += frame_start_time.elapsed()
AddFrameTime ==
    /\ pc = "add_time"
    /\ frame_time' = frame_time + (now - frame_start_time)
    /\ durations' = durations + 1
    /\ pc' = "idle"
    /\ UNCHANGED <<geometryVars, startup_error, acquire_began,
                   control_flow, redraw_requested, surfaceVars, pipeline_format,
                   now, last_time, frames, frame_start_time, gpuVars, reports>>

\* ---------------------------------------------------------------- system
Next ==
    \/ RequestAdapter
    \/ RequestDevice
    \/ CreateBuffers
    \/ ConfigureSurface
    \/ BuildPipeline
    \/ InitTimer
    \/ MainEventsCleared
    \/ Resized
    \/ CloseRequested
    \/ LoopDestroyed
    \/ RedrawRequested
    \/ Account
    \/ RecordPass
    \/ Submit
    \/ Present
    \/ AddFrameTime

Spec == Init /\ [][Next]_vars

\* The event loop polls: every iteration delivers MainEventsCleared and then
\* the RedrawRequested it asked for, and a running handler runs to its end.
FairSpec ==
    /\ Spec
    /\ WF_vars(MainEventsCleared)
    /\ WF_vars(redraw_requested /\ RedrawRequested)
    /\ WF_vars(Account)
    /\ WF_vars(RecordPass)
    /\ WF_vars(Submit)
    /\ WF_vars(Present)
    /\ WF_vars(AddFrameTime)

\* ---------------------------------------------------------------- properties
AcquireOps == {"acquire", "acquire_failed"}
FrameOps == {"acquire", "acquire_failed", "submit", "present"}
InRedraw == pc \in {"account", "record", "submit", "present", "add_time"}
RedrawOver == pc \in {"idle", "panicked", "exited"}

\* Positions of the log entries with the given operation and redraw ordinal.
Calls(ops, f) == {i \in 1..Len(gpu_log) : gpu_log[i].op \in ops /\ gpu_log[i].frame = f}
Redraws == {gpu_log[i].frame : i \in 1..Len(gpu_log)}

\* This step calls get_current_texture.
AcquireStep == /\ Len(gpu_log') = Len(gpu_log) + 1
               /\ Last(gpu_log').op \in AcquireOps
\* This step calls get_current_texture and the call fails.
FailedAcquireStep == /\ Len(gpu_log') = Len(gpu_log) + 1
                     /\ Last(gpu_log').op = "acquire_failed"

ZeroSized == surface_config.configured
             /\ (surface_config.width = 0 \/ surface_config.height = 0)

\* C1: while the surface is configured with a zero width or height, no
\* acquire, submit or present call is made.
C1_NoFrameAtZeroSize ==
    [][ZeroSized => gpu_log' = gpu_log]_vars

\* C2: a failed acquisition never terminates the application: whenever the
\* log holds a failed acquire, the thread has not panicked.
C2_FailedAcquireKeepsRunning ==
    (\E i \in 1..Len(gpu_log) : gpu_log[i].op = "acquire_failed") => pc # "panicked"

\* C3: a redraw whose first acquisition fails reconfigures the surface and
\* retries once: when the redraw is over it has made exactly two acquire
\* calls, with one reconfigure between them.
C3_RetryExactlyOnce ==
    RedrawOver =>
      \A f \in Redraws :
        LET tries == Calls(AcquireOps, f)
            first == CHOOSE i \in tries : \A j \in tries : i <= j
        IN (tries # {} /\ gpu_log[first].op = "acquire_failed") =>
             /\ Cardinality(tries) = 2
             /\ \E c \in Calls({"configure"}, f) :
                  \A j \in tries \ {first} : first < c /\ c < j

\* C4: the redraw step whose acquisition fails leaves frame_count,
\* accumulated_duration and window_start as they were and ends the redraw,
\* and no submit or present is ever logged for that redraw.
C4_FailedAcquireHasNoEffect ==
    /\ [][FailedAcquireStep =>
            /\ frames' = frames
            /\ frame_time' = frame_time
            /\ last_time' = last_time
            /\ pc' \notin {"account", "record", "submit", "present", "add_time"}]_vars
    /\ [](\A f \in Redraws :
            Calls({"acquire_failed"}, f) # {} => Calls({"submit", "present"}, f) = {})

\* C4 witness: an acquisition failed after an earlier frame had been counted
\* and timed.
C4_Witness ==
    /\ gpu_log # <<>>
    /\ Last(gpu_log).op = "acquire_failed"
    /\ frames = 1
    /\ frame_time > 0

\* C5: once CloseRequested has been processed, no acquire, submit or present
\* call is made.
C5_NoFrameAfterClose ==
    [][control_flow = "Exit" => gpu_log' = gpu_log]_vars

NonZero(size) == size.width # 0 /\ size.height # 0

\* C6: after a Resized event with nonzero dimensions, the surface's configured
\* width and height are those of the last such event.
C6_ResizeConverges ==
    (last_resize # NoSize /\ NonZero(last_resize)) =>
        /\ surface_config.configured
        /\ surface_config.width = last_resize.width
        /\ surface_config.height = last_resize.height

\* C6 witness: the same nonzero, non-square size has been delivered twice in
\* a row and the surface carries it.
C6_Witness ==
    /\ repeated
    /\ last_resize = [width |-> 2, height |-> 1]
    /\ surface_config.configured
    /\ surface_config.width = 2
    /\ surface_config.height = 1

\* C7: every acquire call runs against a surface configured with the size the
\* window last reported.
C7_AcquireSeesCurrentSize ==
    [][AcquireStep =>
         /\ surface_config.configured
         /\ surface_config.width = window_size.width
         /\ surface_config.height = window_size.height]_vars

\* C7 witness: a frame was acquired after a Resized event changed the size.
C7_Witness ==
    /\ pc = "account"
    /\ last_resize # NoSize
    /\ NonZero(last_resize)
    /\ last_resize.width # last_resize.height
    /\ window_size = last_resize

\* Frames acquired and not yet presented.
Outstanding == {f \in Redraws : Calls({"acquire"}, f) # {} /\ Calls({"present"}, f) = {}}

\* C8: at most one acquired frame is outstanding, and every acquire is
\* preceded by the submit and then the present of each earlier acquired frame.
C8_FrameOrdering ==
    /\ Cardinality(Outstanding) <= 1
    /\ \A a, b \in 1..Len(gpu_log) :
         (a < b /\ gpu_log[a].op = "acquire" /\ gpu_log[b].op \in AcquireOps) =>
            \E s, p \in 1..Len(gpu_log) :
               /\ a < s /\ s < p /\ p < b
               /\ gpu_log[s] = [op |-> "submit", frame |-> gpu_log[a].frame]
               /\ gpu_log[p] = [op |-> "present", frame |-> gpu_log[a].frame]

\* C8 witness: a second frame has been acquired after the first was presented.
C8_Witness ==
    /\ Len(gpu_log) >= 4
    /\ gpu_log[1].op = "acquire"
    /\ gpu_log[4].op = "acquire"

\* Start of the reporting interval in force when the i-th report was emitted:
\* the start set by the report before it, or the initial one.
IntervalStart(i) == IF i = 1 THEN 0 ELSE reports[i - 1].reset_at

\* C9: each report is emitted at least one reporting interval after the
\* interval start set by the report before it (or the initial start).
C9_AtMostOncePerSecond ==
    \A i \in 1..Len(reports) :
        /\ reports[i].start = IntervalStart(i)
        /\ reports[i].at - IntervalStart(i) >= ReportInterval

\* C9 witness: two reports have been emitted.
C9_Witness == Len(reports) = 2

\* C10: the reported average, avg_millis / avg_over milliseconds, is the
\* accumulated duration divided by the reported frame count.
C10_AverageIsAccumulatedOverCount ==
    \A i \in 1..Len(reports) :
        reports[i].avg_millis * MicrosPerMilli * reports[i].frames
            = reports[i].accumulated * reports[i].avg_over

\* C11: at every report the reported frame count is the number of frame
\* durations added to the accumulator since the previous reset.
C11_CountMatchesDurations ==
    \A i \in 1..Len(reports) : reports[i].frames = reports[i].durations

\* The part of a redraw in which frame_start_time holds this frame's start.
Measuring == pc \in {"record", "submit", "present", "add_time"}

\* C12: the measured span of a frame starts no later than the call of
\* get_current_texture, so the recorded duration includes acquisition.
C12_MeasurementCoversAcquire ==
    Measuring => frame_start_time <= acquire_began

\* The redraw that is running, 0 when none is.
CurrentRedraw == IF InRedraw THEN AcquireCalls ELSE 0
\* The one position in the log of the given call of redraw f.
At(op, f) == CHOOSE i \in Calls({op}, f) : TRUE

\* C13: every acquired frame is submitted once and then presented once, in
\* the order acquire, record, submit, present, timer update, and nothing uses
\* the frame after its present.
C13_FrameStepOrder ==
    /\ \A f \in Redraws :
         Calls({"acquire"}, f) # {} =>
           /\ Cardinality(Calls({"acquire"}, f)) = 1
           /\ Cardinality(Calls({"submit"}, f)) <= 1
           /\ Cardinality(Calls({"present"}, f)) <= 1
           /\ Calls({"submit"}, f) # {} => At("acquire", f) < At("submit", f)
           /\ Calls({"present"}, f) # {} =>
                /\ Calls({"submit"}, f) # {}
                /\ At("submit", f) < At("present", f)
                /\ \A i \in Calls(FrameOps, f) : i <= At("present", f)
                /\ output # f
           /\ f # CurrentRedraw =>
                /\ Calls({"submit"}, f) # {}
                /\ Calls({"present"}, f) # {}
    /\ pc = "submit" =>
         /\ Len(encoder) = 1
         /\ output = CurrentRedraw
         /\ Calls({"submit"}, CurrentRedraw) = {}
    /\ pc = "present" =>
         /\ output = CurrentRedraw
         /\ Calls({"submit"}, CurrentRedraw) # {}
         /\ Calls({"present"}, CurrentRedraw) = {}
    /\ pc = "add_time" => Calls({"present"}, CurrentRedraw) # {}

\* C13 witness: two frames have gone through all their steps.
C13_Witness ==
    /\ pc = "idle"
    /\ Len(gpu_log) = 6
    /\ durations = 2

\* The draw call of scenario 2: indices [0,6), base vertex 0, instances [0,1).
QuadDraw == [first_index |-> 0, end_index |-> 6, base_vertex |-> 0,
             first_instance |-> 0, end_instance |-> 1]

\* C14: each submission carries exactly one draw call, the indexed draw of
\* the quad, there is one submission per submit call, and the buffers hold
\* the 4 vertices and the indices 0,1,2,0,2,3 from their creation on.
C14_OneQuadDrawPerFrame ==
    /\ Len(submitted) = Cardinality({i \in 1..Len(gpu_log) : gpu_log[i].op = "submit"})
    /\ \A i \in 1..Len(submitted) : submitted[i] = <<QuadDraw>>
    /\ gpu_log # <<>> =>
         /\ Len(vertex_buffer) = 4
         /\ index_buffer = <<0, 1, 2, 0, 2, 3>>
         /\ \A i \in 1..Len(index_buffer) : index_buffer[i] < Len(vertex_buffer)

\* C14 witness: two frames were submitted, with a resize and a close request
\* in the run.
C14_Witness ==
    /\ Len(submitted) = 2
    /\ last_resize # NoSize
    /\ control_flow = "Exit"

\* C15: once adapter lookup or device creation has failed, the thread has
\* left main, no step follows, and no redraw, acquire, submit or present has
\* happened or is pending.
C15_StartupFailureIsFatal ==
    /\ [](startup_error # "none" =>
            /\ pc \in {"panicked", "startup_failed"}
            /\ gpu_log = <<>>
            /\ submitted = <<>>
            /\ ~redraw_requested
            /\ ~surface_config.configured)
    /\ [][startup_error = "none"]_vars

\* C15 witness: device creation was refused after an adapter was found.
C15_Witness ==
    /\ startup_error = "device_refused"
    /\ pc = "startup_failed"

\* C16: no acquire call is made on an unconfigured surface, and the step that
\* builds the pipeline finds the surface configured and gives the pipeline
\* the surface's pixel format.
C16_ConfiguredBeforeUse ==
    /\ [](gpu_log # <<>> => surface_config.configured)
    /\ [][pipeline_format' # pipeline_format =>
            /\ surface_config.configured
            /\ pipeline_format' = surface_config.format]_vars

\* C16 witness: a frame was acquired with a pipeline built for the second
\* of the formats.
C16_Witness ==
    /\ gpu_log # <<>>
    /\ gpu_log[1].op = "acquire"
    /\ pipeline_format = "Rgba8UnormSrgb"

\* Number of frames presented so far.
Presented == Cardinality({i \in 1..Len(gpu_log) : gpu_log[i].op = "present"})
\* The k-th frame is complete, the loop is running and not at zero size, and
\* the model has acquisitions left to explore.
FrameDone(k) ==
    /\ pc = "idle"
    /\ Presented = k
    /\ AcquireCalls = k
    /\ k < MaxFrames
    /\ control_flow = "Poll"
    /\ ~ZeroSized
Released == control_flow = "Exit" \/ ZeroSized

\* C17: unless a close request or a zero size intervenes, the completion of
\* a frame leads to a new redraw request and to another frame being
\* acquired and presented.
C17_ContinuousRendering ==
    \A k \in 1..(MaxFrames - 1) :
        /\ FrameDone(k) ~> (redraw_requested \/ AcquireCalls > k \/ Released)
        /\ FrameDone(k) ~> (Presented > k \/ Released)

\* C17, with a panic in get_current_texture admitted as a further way out.
C17_UpToAcquireFailure ==
    \A k \in 1..(MaxFrames - 1) :
        /\ FrameDone(k) ~> (AcquireCalls > k \/ Released)
        /\ FrameDone(k) ~> (Presented > k \/ Released \/ pc = "panicked")

\* C18: the report block, when it emits, zeroes frame_count and
\* accumulated_duration and sets the interval start to the clock; when less
\* than the interval has elapsed it emits nothing and leaves
\* accumulated_duration and the interval start as they were.
C18_ReportResetsOrNoOp ==
    [][pc = "account" =>
         /\ reports' # reports =>
              /\ Len(reports') = Len(reports) + 1
              /\ frames' = 0
              /\ frame_time' = 0
              /\ last_time' = now'
         /\ now - last_time < ReportInterval =>
              /\ reports' = reports
              /\ frame_time' = frame_time
              /\ last_time' = last_time]_vars

\* C18 witness: a report was emitted over a nonzero accumulated duration,
\* after an earlier frame had passed the check without a report.
C18_Witness ==
    /\ pc = "record"
    /\ Len(reports) = 1
    /\ reports[1].accumulated > 0
    /\ reports[1].frames = 2
    /\ frame_time = 0
    /\ frames = 0

\* The fields of a surface configuration other than its size.
Settings(c) == <<c.usage, c.format, c.present_mode, c.alpha_mode>>

\* C19: a configured surface always has the startup usage, present mode and
\* alpha mode, no step changes its pixel format, and a built pipeline's
\* output format is the surface's pixel format.
C19_OnlySizeChanges ==
    /\ [](surface_config.configured =>
            /\ surface_config.usage = "RENDER_ATTACHMENT"
            /\ surface_config.present_mode = "AutoVsync"
            /\ surface_config.alpha_mode = "Auto"
            /\ surface_config.format \in Formats
            /\ pipeline_format # "none" => pipeline_format = surface_config.format)
    /\ [][surface_config.configured =>
            /\ surface_config'.configured
            /\ Settings(surface_config') = Settings(surface_config)]_vars

\* C19 witness: after a resize to a new size, a frame and a close request,
\* the surface still has the second of the formats.
C19_Witness ==
    /\ last_resize = [width |-> 1, height |-> 2]
    /\ surface_config.configured
    /\ surface_config.width = 1
    /\ surface_config.format = "Rgba8UnormSrgb"
    /\ pipeline_format = "Rgba8UnormSrgb"
    /\ Presented >= 1
    /\ control_flow = "Exit"

\* C20: every report was computed with a frame count of at least 1.
C20_ReportCountPositive ==
    \A i \in 1..Len(reports) :
        /\ reports[i].frames >= 1
        /\ reports[i].avg_over >= 1

\* C20 witness: a report was emitted by the very first redraw, after a
\* resize, with no frame completed before it.
C20_Witness ==
    /\ Len(reports) = 1
    /\ reports[1].frames = 1
    /\ reports[1].durations = 0
    /\ last_resize # NoSize

====
